---- MODULE Spec2Model ----
(***************************************************************************)
(* State-machine model of UniFi_Automated_Consoles_Backup.py: the single   *)
(* worker thread and its task queue, the producers that enqueue tasks      *)
(* (Flask request handlers and APScheduler triggers), the operations the   *)
(* worker runs (manual login, connectivity check, single backup attempt,   *)
(* three-pass scheduled backup), the schedule update handler and the       *)
(* rolling application log.                                                *)
(*                                                                         *)
(* Threads are modelled by a position variable each; one action is one     *)
(* step of one thread between two accesses to shared state.                *)
(***************************************************************************)
EXTENDS Integers, Sequences, FiniteSets, TLC

(***************************************************************************)
(* Bounds of the model.                                                    *)
(***************************************************************************)
\* total number of task_queue.put calls in one behaviour
MaxTasks == 2
\* task_queue.put calls in one behaviour of the batch specification
MaxJobs == 1
\* consoles already stored in appdata.json when the process starts
StoredConsoles == 1
\* console objects ever created (stored ones plus add_console requests)
MaxObjs == 2
\* update_schedule requests in one behaviour of the schedule specification
MaxUpdates == 2
\* add_app_log calls in one behaviour of the log specification
MaxAppends == 102

(***************************************************************************)
(* Program constants.                                                      *)
(***************************************************************************)
\* appdata["logs"][-100:]
LogCap == 100
\* "minutes" floor of update_schedule
MinMinutes == 15
\* for _ in range(120) of manual_login_browser_logic
MaxPolls == 120
\* for _ in range(60) of attempt_console_backup
MaxDownloadPolls == 60

VARIABLES
    \* ---- shared program state
    task_queue,            \* queue.Queue(): sequence of task tuples, head first
    current_task_status,   \* dict running / step / start_time
    master_logged_in,      \* appdata["master_logged_in"]
    cookies,               \* TRUE iff cookies.json exists
    consoles,              \* appdata["consoles"]: list of console objects
    con,                   \* the console dicts: object -> [id, status, time]
    last_log,              \* message of the newest entry of appdata["logs"]
    drivers,               \* webdriver sessions created and not yet quit
    \* ---- worker thread
    w_pc,                  \* position of worker_loop
    cur,                   \* the task tuple the worker took from the queue
    exc,                   \* an exception is propagating in the worker thread
    c,                     \* console argument of attempt_console_backup
    ok,                    \* return value of attempt_console_backup
    job,                   \* locals of scheduled_backup_job_logic
    \* ---- producer threads
    sbj_pc,                \* position of scheduled_backup_job (APScheduler)
    ssn_pc,                \* position of start_schedule_now (request thread)
    \* ---- history (not program state)
    enq_count,             \* number of puts so far; the uid of the newest task
    started,               \* uids of the tasks in the order the worker took them
    finished,              \* uids of the tasks whose end_task() has run
    tries,                 \* per console object, the attempts of the current batch
                           \* job on it: the pass and what the attempt returned
    began_out,             \* the current task started while master_logged_in was False
    probe_obs,             \* what the current connectivity check observed
    raised,                \* the current task's operation raised
    put_limit,             \* the number of puts after which the model takes no more requests
    login_obs,             \* what the polling loop of the current manual login saw:
                           \* the location that ended it and the number of polls
    job_log,               \* the entries scheduled_backup_job_logic itself has
                           \* written with add_app_log in the current job
    began_with,            \* the console objects appdata["consoles"] held when the
                           \* current batch job began its first pass
    dl_polls,              \* the number of polls the download loop of the attempt
                           \* being executed has made
    cleaned,               \* kill_leftover_chrome_processes() has run in the
                           \* cleanup_leftover_chrome() call that followed the
                           \* last task the worker took
    \* ---- schedule (update_schedule / init_schedule_jobs)
    schedule,              \* appdata["schedule"]
    sched_jobs,            \* APScheduler jobs: job id -> [unit, value]
    flashes,               \* flash() messages of the last update_schedule request
    upd,                   \* history: the last update_schedule request, how it ended,
                           \* and the number of requests
    \* ---- log (add_app_log)
    logs,                  \* appdata["logs"]
    appended,              \* history: every entry appended, in append order
    al_pc,                 \* position of each thread inside add_app_log
    \* ---- status_stream
    data_logs              \* data["logs"] of the newest event of status_stream

sharedVars == <<task_queue, current_task_status, master_logged_in, cookies,
                consoles, con, last_log, drivers>>
workerVars == <<w_pc, cur, exc, c, ok, job>>
prodVars   == <<sbj_pc, ssn_pc>>
histVars   == <<enq_count, started, finished, tries, began_out, probe_obs, raised,
                put_limit, login_obs, job_log, cleaned, began_with,
                dl_polls>>
schedVars  == <<schedule, sched_jobs, flashes, upd>>
logVars    == <<logs, appended, al_pc, data_logs>>
vars == <<sharedVars, workerVars, prodVars, histVars, schedVars, logVars>>

(***************************************************************************)
(* Values.                                                                 *)
(***************************************************************************)
NoTask == [name |-> [cls |-> "", phase |-> "", target |-> 0],
           func |-> "", arg |-> 0, uid |-> 0]
NoJob  == [pass |-> 0, it |-> 0, fails |-> <<>>, marking |-> FALSE, delays |-> 0]
NoTime == 0
NoObs  == [url |-> [host |-> "", path |-> ""], polls |-> 0]

\* A task label is modelled by its class (the text before the first
\* separator), the phase and the console it names.
Label(cls, phase, target) == [cls |-> cls, phase |-> phase, target |-> target]

\* step.startswith("ScheduledBackup =>")
StartsWithScheduledBackup(label) == label.cls = "ScheduledBackup"

\* the consoles A, B, C of the three-console scenario
ScenarioObjs == {1, 2, 3}

\* console objects of the model
Objs == (1..MaxObjs) \cup ScenarioObjs

\* URLs the browser can be at: host and first path segment.
Urls == { [host |-> h, path |-> p] :
            h \in {"unifi.ui.com", "account.ui.com"},
            p \in {"login", "mfa", "consoles"} }

\* "/login" in url or "/mfa" in url
IsAuthPage(url) == url.path = "login" \/ url.path = "mfa"

AnyLocation(url) == TRUE
\* "unifi.ui.com" in url_ and "/login" not in url_ and "/mfa" not in url_
LoginReached(url) == url.host = "unifi.ui.com" /\ ~IsAuthPage(url)


(***************************************************************************)
(* Task queue and current_task_status.                                     *)
(***************************************************************************)
QueueDrop(q, item) == IF q = <<>> THEN Append(q, item) ELSE q
\* task_queue.put(item)
QueuePut(q, item) == Append(q, item)

QueueGetLast(q) == [item |-> q[Len(q)], rest |-> SubSeq(q, 1, Len(q) - 1)]
\* task_queue.get() on a non-empty queue
QueueGet(q) == [item |-> Head(q), rest |-> Tail(q)]

\* start_task(step_msg)
StartTask(label) == [running |-> TRUE, step |-> label, start_time |-> "set"]

\* end_task()
EndTask == [running |-> FALSE, step |-> Label("", "", 0), start_time |-> "None"]

\* is_task_running()
IsTaskRunning == current_task_status.running

\* current_task_status["step"] = ...
SetStep(label) == [current_task_status EXCEPT !.step = label]

\* any(item[0].startswith("ScheduledBackup =>") for item in list(task_queue.queue))
ScheduledBackupQueued(q) ==
    \E i \in 1..Len(q) : StartsWithScheduledBackup(q[i].name)

\* The four kinds of task tuple (label, func, args).
LoginTask(uid)  == [name |-> Label("ManualRelogin", "", 0),
                    func |-> "manual_login_browser_logic", arg |-> 0, uid |-> uid]
CheckTask(uid)  == [name |-> Label("ConnectivityCheck", "", 0),
                    func |-> "scheduled_connectivity_check_logic", arg |-> 0, uid |-> uid]
BatchTask(uid)  == [name |-> Label("ScheduledBackup", "Pass1", 0),
                    func |-> "scheduled_backup_job_logic", arg |-> 0, uid |-> uid]
BackupTask(uid, o) == [name |-> Label("ManualBackup", "", o),
                    func |-> "attempt_console_backup", arg |-> o, uid |-> uid]

(***************************************************************************)
(* Selenium driver sessions.                                               *)
(***************************************************************************)
\* driver = get_selenium_driver()
GetSeleniumDriver(n) == n + 1

DriverLeak(n) == n
\* driver.quit()
DriverQuit(n) == n - 1

(***************************************************************************)
(* Console store.                                                          *)
(***************************************************************************)
\* the console dict as add_console creates it
NewConsole(id) == [id |-> id, status |-> "Unknown", time |-> NoTime]

\* next((x for x in consoles if x["id"] == cid), None); 0 stands for None
FindConsole(list, cid) ==
    IF \E i \in 1..Len(list) : con[list[i]].id = cid
    THEN list[CHOOSE i \in 1..Len(list) :
                  /\ con[list[i]].id = cid
                  /\ \A k \in 1..(i - 1) : con[list[k]].id # cid]
    ELSE 0

\* threads that call add_app_log: the worker, and a scheduler or request thread
LogThreads == {"worker", "producer"}

(***************************************************************************)
(* Initial state: the process has started, load_appdata() has read         *)
(* appdata.json (written by an earlier run, or created with defaults),     *)
(* init_schedule_jobs() has installed the triggers, the queue is empty     *)
(* and the worker thread waits in task_queue.get().                        *)
(***************************************************************************)
DefaultSchedule ==
    [backup_enabled |-> TRUE, backup_value |-> 1, backup_unit |-> "days",
     check_enabled  |-> TRUE, check_value  |-> 4, check_unit  |-> "hours"]

DefaultJobs ==
    [BackupJob |-> [installed |-> TRUE, unit |-> "days", value |-> 1],
     ConnectivityCheckJob |-> [installed |-> TRUE, unit |-> "hours", value |-> 4]]

InitCommon ==
    /\ task_queue = <<>>
    /\ current_task_status = EndTask
    /\ last_log = ""
    /\ drivers = 0
    /\ w_pc = "w_get"
    /\ cur = NoTask
    /\ exc = FALSE
    /\ c = 0
    /\ ok = FALSE
    /\ job = NoJob
    /\ sbj_pc = "idle"
    /\ ssn_pc = "idle"
    /\ enq_count = 0
    /\ started = <<>>
    /\ finished = <<>>
    /\ tries = [o \in Objs |-> <<>>]
    /\ began_out = FALSE
    /\ probe_obs = "none"
    /\ raised = FALSE
    /\ job_log = <<>>
    /\ login_obs = NoObs
    /\ cleaned = FALSE
    /\ dl_polls = 0
    /\ began_with = <<>>
    /\ schedule = DefaultSchedule
    /\ sched_jobs = DefaultJobs
    /\ flashes = {}
    /\ upd = [done |-> "none", sent |-> DefaultSchedule, count |-> 0]
    /\ logs = <<>>
    /\ appended = <<>>
    /\ al_pc = [t \in LogThreads |-> "idle"]
    /\ data_logs = <<>>

\* appdata.json of an earlier run: StoredConsoles consoles with ids 1..n that
\* were never backed up; logged in (cookies.json present) or logged out.
InitStore ==
    /\ consoles = [i \in 1..StoredConsoles |-> i]
    /\ con = [o \in 1..StoredConsoles |-> NewConsole(o)]
    /\ master_logged_in \in BOOLEAN
    /\ cookies \in BOOLEAN
    /\ master_logged_in => cookies

(***************************************************************************)
(* worker_loop                                                             *)
(***************************************************************************)
\* func(*args, **kwargs): where the called operation starts
EntryPoint(func) ==
    CASE func = "manual_login_browser_logic"         -> "login_open"
      [] func = "scheduled_connectivity_check_logic" -> "check_begin"
      [] func = "attempt_console_backup"             -> "att_open"
      [] func = "scheduled_backup_job_logic"         -> "job_begin"

NoHandler(e) == IF e THEN "w_crashed" ELSE "w_end"
\* try: func(...) except Exception: ...  -- where the worker continues when
\* the operation returns (e = FALSE) or raises (e = TRUE)
AfterCall(e) == IF e THEN "w_except" ELSE "w_end"

\* task_name, func, args, kwargs = task_queue.get()
WorkerGet ==
    /\ w_pc = "w_get"
    /\ task_queue # <<>>
    /\ cur' = QueueGet(task_queue).item
    /\ task_queue' = QueueGet(task_queue).rest
    /\ started' = Append(started, QueueGet(task_queue).item.uid)
    /\ w_pc' = "w_start"
    /\ cleaned' = FALSE
    /\ UNCHANGED <<current_task_status, master_logged_in, cookies, consoles, con,
                   last_log, drivers, exc, c, ok, job, prodVars, enq_count,
                   finished, tries, began_out, probe_obs, raised, put_limit, dl_polls, began_with, login_obs,
                   job_log, schedVars, logVars>>

\* start_task(task_name); add_app_log("Worker: Starting task ..."); func(*args)
WorkerStart ==
    /\ w_pc = "w_start"
    /\ current_task_status' = StartTask(cur.name)
    /\ last_log' = "Worker: Starting task"
    /\ w_pc' = EntryPoint(cur.func)
    /\ c' = cur.arg
    /\ began_out' = ~master_logged_in
    /\ probe_obs' = "none"
    /\ raised' = FALSE
    /\ UNCHANGED <<task_queue, master_logged_in, cookies, consoles, con, drivers,
                   cur, exc, ok, job, prodVars, enq_count, started, finished,
                   tries, put_limit, dl_polls, began_with, cleaned, login_obs, job_log, schedVars, logVars>>

\* except Exception as e: add_app_log(f"Task '{task_name}' => ERROR: {e}")
WorkerExcept ==
    /\ w_pc = "w_except"
    /\ last_log' = "Task => ERROR"
    /\ exc' = FALSE
    /\ w_pc' = "w_end"
    /\ UNCHANGED <<task_queue, current_task_status, master_logged_in, cookies,
                   consoles, con, drivers, cur, c, ok, job, prodVars, histVars,
                   schedVars, logVars>>

\* end_task(); task_queue.task_done()
WorkerEnd ==
    /\ w_pc = "w_end"
    /\ current_task_status' = EndTask
    /\ finished' = Append(finished, cur.uid)
    /\ cur' = NoTask
    /\ c' = 0
    /\ w_pc' = "w_cleanup"
    /\ UNCHANGED <<task_queue, master_logged_in, cookies, consoles, con, last_log,
                   drivers, exc, ok, job, prodVars, enq_count, started, tries,
                   began_out, probe_obs, raised, put_limit, dl_polls, began_with, cleaned, login_obs, job_log, schedVars, logVars>>

\* cleanup_leftover_chrome() goes on to kill_leftover_chrome_processes():
\* if is_task_running(): return;  if not task_queue.empty(): return
CleanupProceeds == ~IsTaskRunning /\ task_queue = <<>>

\* cleanup_leftover_chrome(): kills stray browser processes when no task runs
\* and the queue is empty
WorkerCleanup ==
    /\ w_pc = "w_cleanup"
    /\ cleaned' = CleanupProceeds
    /\ w_pc' = "w_get"
    /\ UNCHANGED <<sharedVars, cur, exc, c, ok, job, prodVars, enq_count, started,
                   finished, tries, began_out, probe_obs, raised, put_limit, dl_polls, began_with,
                   login_obs, job_log, schedVars, logVars>>

WorkerLoop == WorkerGet \/ WorkerStart \/ WorkerExcept \/ WorkerEnd \/ WorkerCleanup


(***************************************************************************)
(* manual_login_browser_logic                                              *)
(***************************************************************************)
\* driver = get_selenium_driver(); driver.get(...); add_app_log("Opened ...")
LoginOpen ==
    /\ w_pc = "login_open"
    /\ drivers' = GetSeleniumDriver(drivers)
    /\ last_log' = "Opened unifi.ui.com for manual login (2 min)."
    /\ w_pc' = "login_wait"
    /\ UNCHANGED <<task_queue, current_task_status, master_logged_in, cookies,
                   consoles, con, cur, exc, c, ok, job, prodVars, histVars,
                   schedVars, logVars>>

PollsBeyond == {1, MaxPolls + 1}
\* the poll that can end the loop: the first one or the last one
PollCounts == {1, MaxPolls}

\* for _ in range(120): ... -- the polling loop as one step.  url is the
\* location that ends it (the first one that is neither login nor mfa, or
\* the one seen by the last poll); driver.current_url may also raise.
LoginWait ==
    /\ w_pc = "login_wait"
    /\ \/ \E url \in Urls, n \in PollCounts :
            /\ IF LoginReached(url)
               THEN /\ w_pc' = "login_save"
                    /\ login_obs' = [url |-> url, polls |-> n]
                    /\ UNCHANGED last_log
               ELSE /\ n = MaxPolls
                    /\ w_pc' = "login_finally"
                    /\ login_obs' = [url |-> url, polls |-> n]
                    /\ last_log' = "Manual login => timed out => user never left /login or /mfa."
            /\ UNCHANGED <<exc, raised>>
       \/ /\ exc' = TRUE
          /\ raised' = TRUE
          /\ w_pc' = "login_finally"
          /\ login_obs' = NoObs
          /\ UNCHANGED last_log
    /\ UNCHANGED <<task_queue, current_task_status, master_logged_in, cookies,
                   consoles, con, drivers, cur, c, ok, job, prodVars, enq_count,
                   started, finished, tries, began_out, probe_obs,
                   put_limit, dl_polls, began_with, cleaned, job_log, schedVars, logVars>>

\* save_cookies(driver)
LoginSave ==
    /\ w_pc = "login_save"
    /\ cookies' = TRUE
    /\ last_log' = "Cookies saved to cookies.json"
    /\ w_pc' = "login_set"
    /\ UNCHANGED <<task_queue, current_task_status, master_logged_in, consoles,
                   con, drivers, cur, exc, c, ok, job, prodVars, histVars,
                   schedVars, logVars>>

\* appdata["master_logged_in"] = True; add_app_log("Manual login success ...")
LoginSet ==
    /\ w_pc = "login_set"
    /\ master_logged_in' = TRUE
    /\ last_log' = "Manual login success => master_logged_in=True."
    /\ w_pc' = "login_finally"
    /\ UNCHANGED <<task_queue, current_task_status, cookies, consoles, con,
                   drivers, cur, exc, c, ok, job, prodVars, histVars,
                   schedVars, logVars>>

\* finally: driver.quit(); save_appdata()
LoginFinally ==
    /\ w_pc = "login_finally"
    /\ drivers' = DriverQuit(drivers)
    /\ w_pc' = AfterCall(exc)
    /\ UNCHANGED <<task_queue, current_task_status, master_logged_in, cookies,
                   consoles, con, last_log, cur, exc, c, ok, job, prodVars,
                   histVars, schedVars, logVars>>

ManualLoginBrowserLogic ==
    LoginOpen \/ LoginWait \/ LoginSave \/ LoginSet \/ LoginFinally

(***************************************************************************)
(* scheduled_connectivity_check_logic                                      *)
(***************************************************************************)
\* if not master_logged_in: log, return;  driver = get_selenium_driver()
CheckBegin ==
    /\ w_pc = "check_begin"
    /\ IF ~master_logged_in
       THEN /\ last_log' = "Connectivity check => not logged in => skip."
            /\ w_pc' = AfterCall(FALSE)
            /\ UNCHANGED drivers
       ELSE /\ drivers' = GetSeleniumDriver(drivers)
            /\ w_pc' = "check_body"
            /\ UNCHANGED last_log
    /\ UNCHANGED <<task_queue, current_task_status, master_logged_in, cookies,
                   consoles, con, cur, exc, c, ok, job, prodVars, histVars,
                   schedVars, logVars>>

ProbeIgnoresRedirect(url, flag) == flag
\* the value of master_logged_in after the check has seen url
ProbeVerdict(url, flag) == IF IsAuthPage(url) THEN FALSE ELSE flag

\* try: driver.get(...); load_cookies; driver.get(...); curr_url = ...
CheckBody ==
    /\ w_pc = "check_body"
    /\ \/ \E url \in Urls :
            /\ master_logged_in' = ProbeVerdict(url, master_logged_in)
            /\ last_log' = IF IsAuthPage(url)
                           THEN "Connectivity check => forced login => set not logged in."
                           ELSE "Connectivity check => success => still logged in."
            /\ probe_obs' = IF IsAuthPage(url) THEN "auth_redirect" ELSE "authenticated"
            /\ UNCHANGED <<exc, raised>>
       \/ /\ exc' = TRUE
          /\ raised' = TRUE
          /\ UNCHANGED <<master_logged_in, last_log, probe_obs>>
    /\ w_pc' = "check_finally"
    /\ UNCHANGED <<task_queue, current_task_status, cookies, consoles, con,
                   drivers, cur, c, ok, job, prodVars, enq_count, started,
                   finished, tries, began_out, put_limit, dl_polls, began_with, cleaned, login_obs, job_log, schedVars, logVars>>

\* finally: driver.quit()
CheckFinally ==
    /\ w_pc = "check_finally"
    /\ drivers' = DriverQuit(drivers)
    /\ w_pc' = AfterCall(exc)
    /\ UNCHANGED <<task_queue, current_task_status, master_logged_in, cookies,
                   consoles, con, last_log, cur, exc, c, ok, job, prodVars,
                   histVars, schedVars, logVars>>

ScheduledConnectivityCheckLogic == CheckBegin \/ CheckBody \/ CheckFinally

(***************************************************************************)
(* attempt_console_backup(console)                                         *)
(***************************************************************************)
InJob == cur.func = "scheduled_backup_job_logic"

\* driver = get_selenium_driver()
AttOpen ==
    /\ w_pc = "att_open"
    /\ drivers' = GetSeleniumDriver(drivers)
    /\ w_pc' = "att_check"
    /\ UNCHANGED <<task_queue, current_task_status, master_logged_in, cookies,
                   consoles, con, last_log, cur, exc, c, ok, job, prodVars,
                   histVars, schedVars, logVars>>

StaleTime(uid) == NoTime
\* console["last_backup_time"] = datetime.now(timezone.utc)...: the time of a
\* successful attempt is modelled by the uid of the task that made it
BackupTime(uid) == uid

\* what the download part of the try block can end in
Downloads == {"file", "no file", "exception"}

\* the polls the loop of lines 394-403 can have made when the try block ends:
\* the file is there at the first poll or at the last one, or at none; the
\* loop is not reached when the attempt returns or raises before it
DownloadPolls(dl, reached) ==
    IF ~reached \/ dl = "exception" THEN {0}
    ELSE IF dl = "file" THEN {1, MaxDownloadPolls} ELSE {MaxDownloadPolls}

\* the attempt of the current batch job on console o, as the job will see it
Recorded(o, result) ==
    IF InJob THEN [tries EXCEPT ![o] = Append(@, [pass |-> job.pass, ok |-> result])]
    ELSE tries

\* try: driver.get(...); load_cookies(driver);
\* if not appdata.get("master_logged_in", False): ...; return False
\* -- the driver calls may raise, which leads to the except clause
AttCheck ==
    /\ w_pc = "att_check"
    /\ \E raises \in BOOLEAN :
          CASE raises ->
                 /\ con' = [con EXCEPT ![c].status = "Fail: exception"]
                 /\ last_log' = "Backup => exception"
                 /\ ok' = FALSE
                 /\ tries' = Recorded(c, FALSE)
                 /\ w_pc' = "att_finally"
            [] ~raises /\ ~master_logged_in ->
                 /\ con' = [con EXCEPT ![c].status = "Fail: Not logged in"]
                 /\ last_log' = "Backup => Not logged in => fail."
                 /\ ok' = FALSE
                 /\ tries' = Recorded(c, FALSE)
                 /\ w_pc' = "att_finally"
            [] ~raises /\ master_logged_in ->
                 /\ w_pc' = "att_body"
                 /\ UNCHANGED <<con, last_log, ok, tries>>
    /\ UNCHANGED <<task_queue, current_task_status, master_logged_in, cookies,
                   consoles, drivers, cur, exc, c, job, prodVars, enq_count,
                   started, finished, began_out, probe_obs, raised, put_limit,
                   dl_polls, began_with, cleaned, login_obs, job_log, schedVars,
                   logVars>>

\* the rest of the try block, from driver.get(console["backup_url"]) to the
\* return or the except clause; any driver call in it may raise
\* (dl = "exception")
AttBody ==
    /\ w_pc = "att_body"
    /\ \E url \in Urls, dl \in Downloads :
          /\ CASE dl = "exception" ->
                 /\ con' = [con EXCEPT ![c].status = "Fail: exception"]
                 /\ last_log' = "Backup => exception"
                 /\ ok' = FALSE
                 /\ UNCHANGED master_logged_in
            [] dl # "exception" /\ IsAuthPage(url) ->
                 /\ con' = [con EXCEPT ![c].status = "Fail: forced login => cookies invalid"]
                 /\ last_log' = "Backup => forced login => set master_logged_in=False"
                 /\ master_logged_in' = FALSE
                 /\ ok' = FALSE
            [] dl = "no file" /\ ~IsAuthPage(url) ->
                 /\ con' = [con EXCEPT ![c].status = "Fail: no .unf or .tar.gz after 60s"]
                 /\ last_log' = "Backup => no .unf/.tar.gz => fail."
                 /\ ok' = FALSE
                 /\ UNCHANGED master_logged_in
            [] dl = "file" /\ ~IsAuthPage(url) ->
                 /\ con' = [con EXCEPT ![c].status = "Success",
                                       ![c].time = BackupTime(cur.uid)]
                 /\ last_log' = "Backup => success"
                 /\ ok' = TRUE
                 /\ UNCHANGED master_logged_in
          /\ dl_polls' \in DownloadPolls(dl, ~IsAuthPage(url))
    /\ tries' = Recorded(c, ok')
    /\ w_pc' = "att_finally"
    /\ UNCHANGED <<task_queue, current_task_status, cookies, consoles, drivers,
                   cur, exc, c, job, prodVars, enq_count, started, finished,
                   began_out, probe_obs, raised, put_limit, began_with, cleaned,
                   login_obs, job_log, schedVars, logVars>>

\* finally: driver.quit(); save_appdata() -- then back to the caller
AttFinally ==
    /\ w_pc = "att_finally"
    /\ drivers' = DriverQuit(drivers)
    /\ w_pc' = IF InJob THEN "job_record" ELSE AfterCall(FALSE)
    /\ dl_polls' = 0
    /\ UNCHANGED <<task_queue, current_task_status, master_logged_in, cookies,
                   consoles, con, last_log, cur, exc, c, ok, job, prodVars,
                   enq_count, started, finished, tries, began_out, probe_obs,
                   raised, put_limit, login_obs, job_log, cleaned, began_with,
                   schedVars, logVars>>

AttemptConsoleBackup == AttOpen \/ AttCheck \/ AttBody \/ AttFinally


(***************************************************************************)
(* scheduled_backup_job_logic: pass1 -> pass2 -> pass3                     *)
(***************************************************************************)
RunsLoggedOut(flag) == TRUE
\* if not appdata.get("master_logged_in", False): ... return
JobMayRun(flag) == flag

RetriesAnyway(pass, failed) == IF pass < 3 THEN "wait" ELSE "mark"
AbortsLoggedOut(pass, failed) ==
    IF failed = <<>> \/ ~master_logged_in THEN "done"
    ELSE IF pass < 3 THEN "wait" ELSE "mark"
NeverMarks(pass, failed) ==
    IF failed = <<>> THEN "done" ELSE IF pass < 3 THEN "wait" ELSE "done"
OneMorePass(pass, failed) ==
    IF failed = <<>> THEN "done" ELSE IF pass < 4 THEN "wait" ELSE "mark"
\* what follows a pass whose failures are `failed`: the nested
\* if pass1_fail / if pass2_fail / if pass3_fail
AfterPass(pass, failed) ==
    IF failed = <<>> THEN "done" ELSE IF pass < 3 THEN "wait" ELSE "mark"

KeepsAttemptStatus(pass, status) == status
\* the status of a console whose attempt in `pass` returned True
StatusAfterSuccess(pass, status) ==
    IF pass > 1 THEN "Succeeded after retry" ELSE status

\* the list the current pass iterates: all_cons in pass 1, the previous
\* pass's fail list (console ids) afterwards
PassLen == IF job.pass = 1 THEN Len(consoles) ELSE Len(job.fails[job.pass - 1])

\* an entry of appdata["logs"] written by the job: its text (without the
\* console name) and the console whose name it carries (0: none)
JobEntry(msg, target) == [msg |-> msg, target |-> target]

\* the text of the retry entry of pass 2 / pass 3
RetryText(pass) ==
    IF pass = 2 THEN "pass2 => succeeded after retry" ELSE "pass3 => succeeded after retry"

JobBegin ==
    /\ w_pc = "job_begin"
    /\ tries' = [o \in Objs |-> <<>>]
    /\ IF ~JobMayRun(master_logged_in)
       THEN /\ last_log' = "Scheduled backup => canceled => not logged in."
            /\ job_log' = << JobEntry("Scheduled backup => canceled => not logged in.", 0) >>
            /\ w_pc' = AfterCall(FALSE)
            /\ UNCHANGED <<job, began_with>>
       ELSE /\ began_with' = consoles
            /\ last_log' = "Scheduled backup => pass#1 for all consoles."
            /\ job_log' = << JobEntry("Scheduled backup => pass#1 for all consoles.", 0) >>
            /\ job' = [pass |-> 1, it |-> 1, fails |-> << <<>> >>,
                       marking |-> FALSE, delays |-> 0]
            /\ w_pc' = "job_next"
    /\ UNCHANGED <<task_queue, current_task_status, master_logged_in, cookies,
                   consoles, con, drivers, cur, exc, c, ok, prodVars, enq_count,
                   started, finished, began_out, probe_obs, raised, put_limit, dl_polls, cleaned, login_obs,
                   schedVars, logVars>>

\* for c in all_cons: current_task_status["step"] = ...; attempt_console_backup(c)
JobPass1Next ==
    /\ w_pc = "job_next"
    /\ ~job.marking
    /\ job.pass = 1
    /\ job.it <= Len(consoles)
    /\ c' = consoles[job.it]
    /\ job' = [job EXCEPT !.it = @ + 1]
    /\ current_task_status' = SetStep(Label("ScheduledBackup", "Pass1", consoles[job.it]))
    /\ w_pc' = "att_open"
    /\ UNCHANGED <<task_queue, master_logged_in, cookies, consoles, con, last_log,
                   drivers, cur, exc, ok, prodVars, histVars, schedVars, logVars>>

\* for cid in passN_fail: c = next(...); if not c: continue; ...; attempt_console_backup(c)
JobRetryNext ==
    /\ w_pc = "job_next"
    /\ ~job.marking
    /\ job.pass > 1
    /\ job.it <= PassLen
    /\ LET o == FindConsole(consoles, job.fails[job.pass - 1][job.it])
       IN  /\ job' = [job EXCEPT !.it = @ + 1]
           /\ IF o = 0
              THEN UNCHANGED <<c, current_task_status, w_pc>>
              ELSE /\ c' = o
                   /\ current_task_status' =
                          SetStep(Label("ScheduledBackup",
                                        IF job.pass = 2 THEN "Pass2" ELSE "Pass3", o))
                   /\ w_pc' = "att_open"
    /\ UNCHANGED <<task_queue, master_logged_in, cookies, consoles, con, last_log,
                   drivers, cur, exc, ok, prodVars, histVars, schedVars, logVars>>

\* if not ok: passN_fail.append(c["id"])
\* else (passes 2 and 3): c["last_backup_status"] = "Succeeded after retry"
JobRecord ==
    /\ w_pc = "job_record"
    /\ IF ~ok
       THEN /\ job' = [job EXCEPT !.fails[job.pass] = Append(@, con[c].id)]
            /\ UNCHANGED <<con, last_log, job_log>>
       ELSE /\ con' = [con EXCEPT ![c].status = StatusAfterSuccess(job.pass, @)]
            /\ last_log' = IF job.pass > 1 THEN "succeeded after retry" ELSE last_log
            /\ job_log' = IF job.pass > 1
                           THEN Append(job_log, JobEntry(RetryText(job.pass), c))
                           ELSE job_log
            /\ UNCHANGED job
    /\ w_pc' = "job_next"
    /\ UNCHANGED <<task_queue, current_task_status, master_logged_in, cookies,
                   consoles, drivers, cur, exc, c, ok, prodVars, enq_count,
                   started, finished, tries, began_out, probe_obs, raised,
                   put_limit, dl_polls, began_with, cleaned, login_obs, schedVars, logVars>>

\* the end of a pass: if passN_fail: ... else: log_console("No fails ...")
JobPassEnd ==
    /\ w_pc = "job_next"
    /\ ~job.marking
    /\ job.it > PassLen
    /\ LET next == AfterPass(job.pass, job.fails[job.pass])
       IN  CASE next = "done" ->
                  /\ w_pc' = "job_done"
                  /\ UNCHANGED <<job, current_task_status>>
             [] next = "wait" ->
                  /\ w_pc' = "job_wait"
                  /\ current_task_status' =
                         SetStep(Label("ScheduledBackup", "Wait10s", 0))
                  /\ UNCHANGED job
             [] next = "mark" ->
                  /\ w_pc' = "job_next"
                  /\ job' = [job EXCEPT !.marking = TRUE, !.it = 1]
                  /\ UNCHANGED current_task_status
    /\ UNCHANGED <<task_queue, master_logged_in, cookies, consoles, con, last_log,
                   drivers, cur, exc, c, ok, prodVars, histVars, schedVars, logVars>>

\* time.sleep(10); passN_fail = []
JobWait ==
    /\ w_pc = "job_wait"
    /\ job' = [job EXCEPT !.pass = @ + 1, !.it = 1, !.fails = Append(@, <<>>),
                          !.delays = @ + 1]
    /\ w_pc' = "job_next"
    /\ UNCHANGED <<sharedVars, cur, exc, c, ok, prodVars, histVars, schedVars, logVars>>

\* for cid in pass3_fail: c = next(...); if c: c["last_backup_status"] = "Failed after 3 tries"
JobMark ==
    /\ w_pc = "job_next"
    /\ job.marking
    /\ IF job.it <= Len(job.fails[job.pass])
       THEN LET o == FindConsole(consoles, job.fails[job.pass][job.it])
            IN  /\ job' = [job EXCEPT !.it = @ + 1]
                /\ IF o = 0
                   THEN UNCHANGED <<con, last_log, job_log>>
                   ELSE /\ con' = [con EXCEPT ![o].status = "Failed after 3 tries"]
                        /\ last_log' = "failed after 3 tries."
                        /\ job_log' = Append(job_log, JobEntry("failed after 3 tries.", o))
                /\ UNCHANGED w_pc
       ELSE /\ w_pc' = "job_done"
            /\ UNCHANGED <<job, con, last_log, job_log>>
    /\ UNCHANGED <<task_queue, current_task_status, master_logged_in, cookies,
                   consoles, drivers, cur, exc, c, ok, prodVars, enq_count,
                   started, finished, tries, began_out, probe_obs, raised,
                   put_limit, dl_polls, began_with, cleaned, login_obs, schedVars, logVars>>

\* add_app_log("Scheduled backup => complete ..."); step = "ScheduledBackup => Done"
JobDone ==
    /\ w_pc = "job_done"
    /\ last_log' = "Scheduled backup => complete => all passes done."
    /\ job_log' = Append(job_log, JobEntry("Scheduled backup => complete => all passes done.", 0))
    /\ current_task_status' = SetStep(Label("ScheduledBackup", "Done", 0))
    /\ w_pc' = AfterCall(FALSE)
    /\ UNCHANGED <<task_queue, master_logged_in, cookies, consoles, con, drivers,
                   cur, exc, c, ok, job, prodVars, enq_count, started, finished,
                   tries, began_out, probe_obs, raised, put_limit, dl_polls, began_with, cleaned, login_obs, schedVars,
                   logVars>>

ScheduledBackupJobLogic ==
    \/ JobBegin \/ JobPass1Next \/ JobRetryNext \/ JobRecord
    \/ JobPassEnd \/ JobWait \/ JobMark \/ JobDone

(***************************************************************************)
(* Producers: APScheduler jobs and Flask request handlers.                 *)
(***************************************************************************)
\* handlers that have passed their checks and will still put a task
InFlight == (IF sbj_pc = "idle" THEN 0 ELSE 1) + (IF ssn_pc = "idle" THEN 0 ELSE 1)

\* the model stops accepting requests after put_limit puts
MayEnqueue == enq_count + InFlight < put_limit

\* task_queue.put(task), with the history of puts
Put(task) ==
    /\ task_queue' = QueuePut(task_queue, task)
    /\ enq_count' = enq_count + 1

\* scheduled_connectivity_check_job(): the ConnectivityCheckJob trigger fires
ScheduledConnectivityCheckJob ==
    /\ sched_jobs.ConnectivityCheckJob.installed
    /\ MayEnqueue
    /\ Put(CheckTask(enq_count + 1))
    /\ UNCHANGED <<current_task_status, master_logged_in, cookies, consoles, con,
                   last_log, drivers, workerVars, prodVars, started, finished,
                   tries, began_out, probe_obs, raised, put_limit, dl_polls, began_with, cleaned, login_obs, job_log, schedVars, logVars>>

\* scheduled_backup_job(): the BackupJob trigger fires;
\* if is_task_running() and step.startswith("ScheduledBackup =>"): log, return
SbjCheckRunning ==
    /\ sbj_pc = "idle"
    /\ sched_jobs.BackupJob.installed
    /\ MayEnqueue
    /\ IF IsTaskRunning /\ StartsWithScheduledBackup(current_task_status.step)
       THEN /\ last_log' = "Conflict: a scheduled backup is already running => skip new one."
            /\ UNCHANGED sbj_pc
       ELSE /\ sbj_pc' = "scan"
            /\ UNCHANGED last_log
    /\ UNCHANGED <<task_queue, current_task_status, master_logged_in, cookies,
                   consoles, con, drivers, workerVars, ssn_pc, histVars,
                   schedVars, logVars>>

\* for item in list(task_queue.queue): if item[0].startswith(...): log, return
SbjScan ==
    /\ sbj_pc = "scan"
    /\ IF ScheduledBackupQueued(task_queue)
       THEN /\ last_log' = "Conflict: a scheduled backup is queued => skip new one."
            /\ sbj_pc' = "idle"
       ELSE /\ sbj_pc' = "put"
            /\ UNCHANGED last_log
    /\ UNCHANGED <<task_queue, current_task_status, master_logged_in, cookies,
                   consoles, con, drivers, workerVars, ssn_pc, histVars,
                   schedVars, logVars>>

\* task_queue.put(("ScheduledBackup => Pass1 => allConsoles", ...))
SbjPut ==
    /\ sbj_pc = "put"
    /\ Put(BatchTask(enq_count + 1))
    /\ sbj_pc' = "idle"
    /\ UNCHANGED <<current_task_status, master_logged_in, cookies, consoles, con,
                   last_log, drivers, workerVars, ssn_pc, started, finished,
                   tries, began_out, probe_obs, raised, put_limit, dl_polls, began_with, cleaned, login_obs, job_log, schedVars, logVars>>

ScheduledBackupJob == SbjCheckRunning \/ SbjScan \/ SbjPut

\* start_schedule_now(): the same checks, answered with flash() and a redirect
SsnCheckRunning ==
    /\ ssn_pc = "idle"
    /\ MayEnqueue
    /\ ~(IsTaskRunning /\ StartsWithScheduledBackup(current_task_status.step))
    /\ ssn_pc' = "scan"
    /\ UNCHANGED <<sharedVars, workerVars, sbj_pc, histVars, schedVars, logVars>>

SsnScan ==
    /\ ssn_pc = "scan"
    /\ ssn_pc' = IF ScheduledBackupQueued(task_queue) THEN "idle" ELSE "put"
    /\ UNCHANGED <<sharedVars, workerVars, sbj_pc, histVars, schedVars, logVars>>

SsnPut ==
    /\ ssn_pc = "put"
    /\ Put(BatchTask(enq_count + 1))
    /\ ssn_pc' = "idle"
    /\ UNCHANGED <<current_task_status, master_logged_in, cookies, consoles, con,
                   last_log, drivers, workerVars, sbj_pc, started, finished,
                   tries, began_out, probe_obs, raised, put_limit, dl_polls, began_with, cleaned, login_obs, job_log, schedVars, logVars>>

StartScheduleNow == SsnCheckRunning \/ SsnScan \/ SsnPut

\* manual_relogin(): remove_old_cookie(); master_logged_in = False; put
ManualRelogin ==
    /\ MayEnqueue
    /\ cookies' = FALSE
    /\ last_log' = IF cookies THEN "Removed old cookies.json manually." ELSE last_log
    /\ master_logged_in' = FALSE
    /\ Put(LoginTask(enq_count + 1))
    /\ UNCHANGED <<current_task_status, consoles, con, drivers, workerVars,
                   prodVars, started, finished, tries, began_out,
                   probe_obs, raised, put_limit, dl_polls, began_with, cleaned, login_obs, job_log, schedVars, logVars>>

\* manual_backup(cid) reaches its task_queue.put: logged in, and a console
\* with id cid is stored
ManualBackupAccepts(cid) ==
    /\ master_logged_in
    /\ FindConsole(consoles, cid) # 0

\* manual_backup(cid): refused when logged out or when no console has id cid
ManualBackup ==
    /\ MayEnqueue
    /\ \E cid \in 1..(MaxObjs + 1) :
          /\ ManualBackupAccepts(cid)
          /\ Put(BackupTask(enq_count + 1, FindConsole(consoles, cid)))
    /\ UNCHANGED <<current_task_status, master_logged_in, cookies, consoles, con,
                   last_log, drivers, workerVars, prodVars, started, finished,
                   tries, began_out, probe_obs, raised, put_limit, dl_polls, began_with, cleaned, login_obs, job_log, schedVars, logVars>>

\* add_console(): new_id = max(ids, default=0) + 1; consoles.append(console_obj)
MaxId(list) ==
    IF list = <<>> THEN 0
    ELSE CHOOSE m \in {con[list[i]].id : i \in 1..Len(list)} :
             \A i \in 1..Len(list) : con[list[i]].id <= m

AddConsole ==
    /\ Cardinality(DOMAIN con) < MaxObjs
    /\ LET o == Cardinality(DOMAIN con) + 1
       IN  /\ con' = con @@ (o :> NewConsole(MaxId(consoles) + 1))
           /\ consoles' = Append(consoles, o)
    /\ UNCHANGED <<task_queue, current_task_status, master_logged_in, cookies,
                   last_log, drivers, workerVars, prodVars, histVars,
                   schedVars, logVars>>

\* remove_console(cid): removes the first console whose id is cid
RemoveConsole ==
    /\ \E i \in 1..Len(consoles) :
          /\ \A k \in 1..(i - 1) : con[consoles[k]].id # con[consoles[i]].id
          /\ consoles' = SubSeq(consoles, 1, i - 1) \o SubSeq(consoles, i + 1, Len(consoles))
    /\ UNCHANGED <<task_queue, current_task_status, master_logged_in, cookies,
                   con, last_log, drivers, workerVars, prodVars, histVars,
                   schedVars, logVars>>


(***************************************************************************)
(* update_schedule and init_schedule_jobs                                  *)
(***************************************************************************)
Digits == <<"0", "1", "2", "3", "4", "5", "6", "7", "8", "9">>

IsDigit(ch) == \E d \in 1..10 : Digits[d] = ch

DigitVal(ch) == (CHOOSE d \in 1..10 : Digits[d] = ch) - 1

RECURSIVE DigitsVal(_)
\* the number a non-empty sequence of digits writes
DigitsVal(str) ==
    IF Len(str) = 1 THEN DigitVal(str[1])
    ELSE 10 * DigitsVal(SubSeq(str, 1, Len(str) - 1)) + DigitVal(str[Len(str)])

AllDigits(str) == str # <<>> /\ \A i \in 1..Len(str) : IsDigit(str[i])

\* int(text): decimal digits after an optional minus sign; any other text
\* raises ValueError
ParseInt(str) ==
    IF AllDigits(str) THEN [ok |-> TRUE, val |-> DigitsVal(str)]
    ELSE IF str # <<>> /\ str[1] = "-" /\ AllDigits(Tail(str))
         THEN [ok |-> TRUE, val |-> 0 - DigitsVal(Tail(str))]
         ELSE [ok |-> FALSE, val |-> 0]

\* texts a request can carry in backup_value / check_value
FormValues == { <<"5">>, <<"1", "5">>, <<"0">>, <<"x">> }

\* texts a request can carry in backup_unit / check_unit
FormUnits == {"minutes", "hours", "days", "weeks"}

NoFloor(unit, value) == value
\* if unit == "minutes" and value < 15: value = 15
ClampValue(unit, value) ==
    IF unit = "minutes" /\ value < MinMinutes THEN MinMinutes ELSE value

NoJobInstalled == [installed |-> FALSE, unit |-> "", value |-> 0]

\* one half of init_schedule_jobs(): the job is removed, and added again when
\* the kind is enabled and its unit is minutes, hours or days
InstallJob(enabled, unit, value) ==
    IF enabled /\ unit \in {"minutes", "hours", "days"}
    THEN [installed |-> TRUE, unit |-> unit, value |-> value]
    ELSE NoJobInstalled

\* init_schedule_jobs()
InitScheduleJobs(s) ==
    [BackupJob |-> InstallJob(s.backup_enabled, s.backup_unit, s.backup_value),
     ConnectivityCheckJob |-> InstallJob(s.check_enabled, s.check_unit, s.check_value)]

\* the flash() calls of a request that reached the end of update_schedule
Flashed(s) ==
    {"Schedules & Timezone updated."}
    \cup (IF s.backup_unit = "minutes" /\ s.backup_value < MinMinutes
          THEN {"Backup interval set to minimum of 15 minutes."} ELSE {})
    \cup (IF s.check_unit = "minutes" /\ s.check_value < MinMinutes
          THEN {"Check interval set to minimum of 15 minutes."} ELSE {})

\* the schedule after the clamps of lines 1104-1109
Clamped(s) ==
    [s EXCEPT !.backup_value = ClampValue(s.backup_unit, @),
              !.check_value = ClampValue(s.check_unit, @)]

\* update_schedule() ends with ValueError: the fields assigned so far stay in
\* appdata["schedule"]; save_appdata() and init_schedule_jobs() are not reached
UpdateFails(s) ==
    /\ schedule' = s
    /\ flashes' = {}
    /\ upd' = [done |-> "error", sent |-> s, count |-> upd.count + 1]
    /\ UNCHANGED sched_jobs

\* update_schedule() with every field read: clamp, save, init_schedule_jobs()
UpdateCompletes(s) ==
    /\ schedule' = Clamped(s)
    /\ sched_jobs' = InitScheduleJobs(Clamped(s))
    /\ flashes' = Flashed(s)
    /\ upd' = [done |-> "ok", sent |-> s, count |-> upd.count + 1]

\* update_schedule(): the request handler as one step
UpdateSchedule ==
    /\ upd.count < MaxUpdates
    /\ \E be \in BOOLEAN, bt \in FormValues :
         LET bv == ParseInt(bt)
             s1 == [schedule EXCEPT !.backup_enabled = be]
         IN  IF ~bv.ok
             THEN UpdateFails(s1)
             ELSE \E bu \in FormUnits, ce \in BOOLEAN, ct \in FormValues :
                    LET cv == ParseInt(ct)
                        s2 == [s1 EXCEPT !.backup_value = bv.val,
                                         !.backup_unit = bu,
                                         !.check_enabled = ce]
                    IN  IF ~cv.ok
                        THEN UpdateFails(s2)
                        ELSE \E cu \in FormUnits :
                               UpdateCompletes([s2 EXCEPT !.check_value = cv.val,
                                                          !.check_unit = cu])
    /\ UNCHANGED <<sharedVars, workerVars, prodVars, histVars, logVars>>

(***************************************************************************)
(* add_app_log                                                             *)
(***************************************************************************)
\* seq[-n:]
LastN(seq, n) == IF Len(seq) <= n THEN seq ELSE SubSeq(seq, Len(seq) - n + 1, Len(seq))

NoTruncate(seq) == seq
\* appdata["logs"][-100:]
Truncate(seq) == LastN(seq, LogCap)

\* entry = {...}; appdata["logs"].append(entry) -- entries are numbered in
\* the order they are appended
LogAppend(t) ==
    /\ al_pc[t] = "idle"
    /\ Len(appended) < MaxAppends
    /\ logs' = Append(logs, Len(appended) + 1)
    /\ appended' = Append(appended, Len(appended) + 1)
    /\ al_pc' = [al_pc EXCEPT ![t] = "truncate"]
    /\ UNCHANGED <<data_logs, sharedVars, workerVars, prodVars, histVars, schedVars>>

\* appdata["logs"] = appdata["logs"][-100:]; save_appdata()
LogTruncate(t) ==
    /\ al_pc[t] = "truncate"
    /\ logs' = Truncate(logs)
    /\ al_pc' = [al_pc EXCEPT ![t] = "idle"]
    /\ UNCHANGED <<appended, data_logs, sharedVars, workerVars, prodVars, histVars,
                   schedVars>>

AddAppLog == \E t \in LogThreads : LogAppend(t) \/ LogTruncate(t)

(***************************************************************************)
(* status_stream                                                           *)
(***************************************************************************)
\* reversed(seq)
Reversed(seq) == [i \in 1..Len(seq) |-> seq[Len(seq) + 1 - i]]

\* one round of event_stream(): logs_reversed = reversed(appdata["logs"]) and
\* the loop that copies the entries into data["logs"], as one step
StatusStream ==
    /\ data_logs' = Reversed(logs)
    /\ UNCHANGED <<logs, appended, al_pc, sharedVars, workerVars, prodVars, histVars,
                   schedVars>>

(***************************************************************************)
(* Specifications.                                                         *)
(***************************************************************************)
Init == InitCommon /\ InitStore /\ put_limit = MaxTasks

InitBatch == InitCommon /\ InitStore /\ put_limit = MaxJobs

Worker ==
    \/ WorkerLoop
    \/ ManualLoginBrowserLogic
    \/ ScheduledConnectivityCheckLogic
    \/ AttemptConsoleBackup
    \/ ScheduledBackupJobLogic

\* The worker with every producer of tasks.
Next ==
    \/ Worker
    \/ ScheduledConnectivityCheckJob
    \/ ScheduledBackupJob
    \/ StartScheduleNow
    \/ ManualRelogin
    \/ ManualBackup

Spec == Init /\ [][Next]_vars

\* The same, with the worker thread scheduled fairly: whenever it can take a
\* step (a task is queued, or the function it runs can go on) it eventually
\* does.  Every function the worker runs is a finite sequence of steps.
SpecFair == Init /\ [][Next]_vars /\ WF_vars(Worker)

\* The worker running batch jobs while consoles are added and removed.
NextBatch ==
    \/ WorkerGet \/ WorkerStart \/ WorkerEnd \/ WorkerCleanup
    \/ AttemptConsoleBackup
    \/ ScheduledBackupJobLogic
    \/ StartScheduleNow
    \/ AddConsole
    \/ RemoveConsole

SpecBatch == InitBatch /\ [][NextBatch]_vars

\* Requests to update_schedule.
InitSched == InitCommon /\ InitStore /\ put_limit = 0 /\ ~master_logged_in /\ ~cookies

SpecSched == InitSched /\ [][UpdateSchedule]_vars

\* Threads calling add_app_log.
SpecLog == InitSched /\ [][AddAppLog]_vars

\* Threads calling add_app_log while a client reads /status_stream.
NextStatus == AddAppLog \/ StatusStream

SpecStatus == InitSched /\ [][NextStatus]_vars

\* One batch job over three stored consoles, started with start_schedule_now
\* while logged in.
InitScenario ==
    /\ InitCommon
    /\ consoles = <<1, 2, 3>>
    /\ con = [o \in ScenarioObjs |-> NewConsole(o)]
    /\ master_logged_in = TRUE
    /\ cookies = TRUE
    /\ put_limit = 1

NextScenario ==
    \/ WorkerGet \/ WorkerStart \/ WorkerEnd \/ WorkerCleanup
    \/ AttemptConsoleBackup
    \/ ScheduledBackupJobLogic
    \/ StartScheduleNow

SpecScenario == InitScenario /\ [][NextScenario]_vars

(***************************************************************************)
(* Properties.                                                             *)
(***************************************************************************)
\* the task function of the worker's current task is executing
InTaskFunction == w_pc \notin {"w_get", "w_start", "w_cleanup"}

\* C1: whatever the producers enqueue and however they interleave with the
\* worker, at most one webdriver session exists at any instant, at most one
\* task has been started and not ended, current_task_status is running only
\* for that task, and a session or an executing task function only exists
\* while it is running.
C1_MutualExclusion ==
    /\ drivers \in {0, 1}
    /\ Len(started) - Len(finished) \in {0, 1}
    /\ IsTaskRunning =>
          /\ Len(started) = Len(finished) + 1
          /\ cur.uid = started[Len(started)]
          /\ current_task_status.step.cls = cur.name.cls
    /\ drivers = 1 => IsTaskRunning
    /\ InTaskFunction => IsTaskRunning

\* a session is open inside a running task while a producer has queued another
C1_Witness ==
    /\ drivers = 1
    /\ IsTaskRunning
    /\ InTaskFunction
    /\ task_queue # <<>>

\* C2: the worker takes the tasks in exactly the order of their puts (uids
\* 1, 2, ... are given in put order), whatever their kinds: the tasks started
\* so far are the first puts in order, the queue holds the later puts in
\* order, and a task is taken only after every earlier one has ended.
C2_FifoOrder ==
    /\ \A i \in 1..Len(started) : started[i] = i
    /\ \A i \in 1..Len(task_queue) : task_queue[i].uid = Len(started) + i
    /\ Len(started) + Len(task_queue) = enq_count
    /\ Len(finished) <= Len(started)
    /\ \A i \in 1..Len(finished) : finished[i] = i
    /\ Len(started) <= Len(finished) + 1

\* the second put is being executed after the first one ended
C2_Witness ==
    /\ Len(started) = 2
    /\ Len(finished) = 1
    /\ IsTaskRunning
    /\ InTaskFunction

\* batch-backup tasks that are queued or held by the worker
BatchTasksPending ==
    Cardinality({i \in 1..Len(task_queue) :
                    task_queue[i].func = "scheduled_backup_job_logic"})
    + (IF InJob THEN 1 ELSE 0)

\* C3: at no instant are two batch-backup tasks queued or running together.
C3_NoTwoBatchTasks == BatchTasksPending <= 1

\* recorded attempts of the current batch job on console object o
HasAttempt(o, p, r) ==
    \E i \in 1..Len(tries[o]) : tries[o][i] = [pass |-> p, ok |-> r]

\* the attempts on o failed in pass 1, in pass 2 and in pass 3
FailedAllPasses(o) ==
    HasAttempt(o, 1, FALSE) /\ HasAttempt(o, 2, FALSE) /\ HasAttempt(o, 3, FALSE)

\* o is in appdata["consoles"]
Stored(o) == \E i \in 1..Len(consoles) : consoles[i] = o

\* scheduled_backup_job_logic has finished its passes and the marking
JobOver == InJob /\ w_pc \in {"job_done", "w_end"}

JobStartedLoggedOut == InJob /\ IsTaskRunning /\ InTaskFunction /\ began_out

\* C6: a batch job that starts while logged out does nothing but log the skip:
\* its first step writes the "canceled => not logged in" entry and returns to
\* the worker loop, no attempt is recorded, no webdriver session is opened and
\* no console's status or last backup time changes until the task has ended.
C6_SkipWhenLoggedOut ==
    [][JobStartedLoggedOut =>
          /\ drivers' = 0
          /\ con' = con
          /\ w_pc \in {"job_begin", "w_end"}
          /\ w_pc = "job_begin" => w_pc' \in {"job_begin", "w_end"}
          /\ w_pc = "w_end" => w_pc' \in {"w_end", "w_cleanup"}
          /\ (w_pc = "job_begin" /\ w_pc' = "w_end") =>
                last_log' = "Scheduled backup => canceled => not logged in."
          /\ w_pc' = "w_end" => tries' = [o \in Objs |-> <<>>]
      ]_vars

\* a batch job that started logged out has returned after logging the skip
C6_Witness ==
    /\ JobStartedLoggedOut
    /\ w_pc = "w_end"
    /\ last_log = "Scheduled backup => canceled => not logged in."
    /\ drivers = 0

\* C7: the step in which a connectivity check reads the browser location sets
\* master_logged_in to False when the location is a login or mfa page and
\* leaves it as it was when it is not; once the check has seen such a page,
\* master_logged_in is False for the rest of the task.
C7_ProbeSetsLoggedOut ==
    [][/\ probe_obs' = "auth_redirect" => ~master_logged_in'
       /\ (w_pc = "check_body" /\ probe_obs' = "auth_redirect") =>
             (master_logged_in /\ ~master_logged_in') \/ ~master_logged_in
       /\ (w_pc = "check_body" /\ probe_obs' = "authenticated") =>
             master_logged_in' = master_logged_in
      ]_vars

\* a check that started logged in saw the login page and has returned
C7_Witness ==
    /\ cur.func = "scheduled_connectivity_check_logic"
    /\ ~began_out
    /\ probe_obs = "auth_redirect"
    /\ ~master_logged_in
    /\ w_pc = "w_end"
    /\ IsTaskRunning

\* C8: an exception of a task function never ends worker_loop: it reaches the
\* except clause, which logs "Task ... => ERROR"; the worker then clears
\* current_task_status and is back at task_queue.get().
C8_WorkerSurvives ==
    [][/\ w_pc' # "w_crashed"
       /\ (exc /\ w_pc \in {"login_finally", "check_finally"} /\ w_pc' # w_pc)
             => w_pc' = "w_except"
       /\ (w_pc = "w_except" /\ w_pc' # w_pc)
             => (w_pc' = "w_end" /\ last_log' = "Task => ERROR" /\ ~exc')
       /\ (raised /\ w_pc = "w_end" /\ w_pc' # w_pc)
             => (w_pc' = "w_cleanup" /\ ~current_task_status'.running
                 /\ current_task_status' = EndTask)
       /\ (raised /\ w_pc = "w_cleanup" /\ w_pc' # w_pc) => w_pc' = "w_get"
       /\ (raised /\ w_pc = "w_get" /\ w_pc' # w_pc)
             => (w_pc' = "w_start" /\ task_queue # <<>> /\ cur' = Head(task_queue))
      ]_vars

\* the worker has taken the next task after a task whose function raised
C8_Witness ==
    /\ raised
    /\ w_pc = "w_start"
    /\ Len(started) = 2
    /\ Len(finished) = 1
    /\ ~IsTaskRunning

\* C9: after an update_schedule request that ran to its end, neither stored
\* interval has unit "minutes" with a value below 15, and a submitted
\* "minutes" value below 15 is stored as 15 with the warning of its kind.
C9_MinutesFloor ==
    upd.done = "ok" =>
        /\ schedule.backup_unit = "minutes" => schedule.backup_value >= 15
        /\ schedule.check_unit = "minutes" => schedule.check_value >= 15
        /\ (upd.sent.backup_unit = "minutes" /\ upd.sent.backup_value < 15) =>
              /\ schedule.backup_unit = "minutes"
              /\ schedule.backup_value = 15
              /\ "Backup interval set to minimum of 15 minutes." \in flashes
        /\ (upd.sent.check_unit = "minutes" /\ upd.sent.check_value < 15) =>
              /\ schedule.check_unit = "minutes"
              /\ schedule.check_value = 15
              /\ "Check interval set to minimum of 15 minutes." \in flashes
        /\ sched_jobs.BackupJob.installed =>
              (sched_jobs.BackupJob.unit = "minutes" => sched_jobs.BackupJob.value >= 15)
        /\ sched_jobs.ConnectivityCheckJob.installed =>
              (sched_jobs.ConnectivityCheckJob.unit = "minutes"
                  => sched_jobs.ConnectivityCheckJob.value >= 15)

\* a completed update that submitted 5 minutes for the backup interval
C9_Witness ==
    /\ upd.done = "ok"
    /\ upd.sent.backup_unit = "minutes"
    /\ upd.sent.backup_value = 5
    /\ schedule.backup_value = 15
    /\ "Backup interval set to minimum of 15 minutes." \in flashes

\* C10: when a call of add_app_log completes, appdata["logs"] holds at most
\* 100 entries and they are the last entries appended, in append order (all
\* of them while fewer than 100 have been appended).
C10_LogBound ==
    [][\A t \in LogThreads :
          (al_pc[t] = "truncate" /\ al_pc'[t] = "idle") =>
              /\ Len(logs') <= 100
              /\ Len(logs') = IF Len(appended') < 100 THEN Len(appended') ELSE 100
              /\ \A i \in 1..Len(logs') :
                    logs'[i] = appended'[Len(appended') - Len(logs') + i]
      ]_vars

\* the append of the 101st entry has completed: entry 1 is gone, 2..101 remain
C10_Witness ==
    /\ \A t \in LogThreads : al_pc[t] = "idle"
    /\ Len(appended) = 101
    /\ Len(logs) = 100
    /\ logs[1] = 2
    /\ logs[100] = 101

\* the attempts of the scenario: a succeeds in pass 1, b fails passes 1 and 2
\* and succeeds in pass 3, cc fails all three passes
ScenarioOutcome(a, b, cc) ==
    /\ tries[a] = << [pass |-> 1, ok |-> TRUE] >>
    /\ tries[b] = << [pass |-> 1, ok |-> FALSE], [pass |-> 2, ok |-> FALSE],
                     [pass |-> 3, ok |-> TRUE] >>
    /\ tries[cc] = << [pass |-> 1, ok |-> FALSE], [pass |-> 2, ok |-> FALSE],
                      [pass |-> 3, ok |-> FALSE] >>

\* C11: when a batch job over three consoles is over in which A succeeded in
\* pass 1, B failed passes 1 and 2 and succeeded in pass 3 and C failed all
\* three passes, A has status "Success", B "Succeeded after retry", C "Failed
\* after 3 tries", and the job has slept between passes exactly twice.
C11_ScenarioStatuses ==
    JobOver =>
        \A a, b, cc \in ScenarioObjs :
            ScenarioOutcome(a, b, cc) =>
                /\ con[a].status = "Success"
                /\ con[b].status = "Succeeded after retry"
                /\ con[cc].status = "Failed after 3 tries"
                /\ job.delays = 2

\* the scenario has run to the end of the job with A, B, C in list order
C11_Witness ==
    /\ JobOver
    /\ w_pc = "w_end"
    /\ ScenarioOutcome(1, 2, 3)
    /\ con[1].status = "Success"
    /\ con[2].status = "Succeeded after retry"
    /\ con[3].status = "Failed after 3 tries"
    /\ job.delays = 2

\* how many entries the job wrote with this text for this console
JobEntries(msg, target) ==
    Cardinality({i \in 1..Len(job_log) : job_log[i] = JobEntry(msg, target)})

\* C12: in the same scenario the entries written by the job hold exactly one
\* "pass#1" entry, one "pass2" retry entry for B, one "pass3" retry entry for
\* B and a "failed after 3 tries" entry for C.
C12_ScenarioLog ==
    (JobOver /\ w_pc = "w_end") =>
        \A a, b, cc \in ScenarioObjs :
            ScenarioOutcome(a, b, cc) =>
                /\ JobEntries("Scheduled backup => pass#1 for all consoles.", 0) = 1
                /\ JobEntries("pass2 => succeeded after retry", b) = 1
                /\ JobEntries("pass3 => succeeded after retry", b) = 1
                /\ JobEntries("failed after 3 tries.", cc) = 1

\* the step is a step of the worker thread
WorkerStep == workerVars' # workerVars

\* C13: every step that changes a console's status, master_logged_in or
\* current_task_status, or that creates a webdriver session, is a step of the
\* worker thread holding a task, never of a request handler or scheduler job.
C13_SingleWriter ==
    [][(\/ master_logged_in' # master_logged_in
        \/ current_task_status' # current_task_status
        \/ drivers' > drivers
        \/ \E o \in DOMAIN con : con'[o].status # con[o].status)
          => (WorkerStep /\ w_pc \notin {"w_get", "w_cleanup"})
      ]_vars

\* the step in which a probe or a backup attempt ends with a driver exception
DriverErrorStep ==
    \/ w_pc = "check_body" /\ w_pc' = "check_finally" /\ exc'
    \/ /\ w_pc \in {"att_check", "att_body"}
       /\ w_pc' = "att_finally"
       /\ con'[c].status = "Fail: exception"

\* C14: when a connectivity check or a backup attempt that runs while
\* master_logged_in is True ends with an exception of the driver,
\* master_logged_in is False after that step.
C14_ErrorLogsOut ==
    [][(DriverErrorStep /\ master_logged_in) => ~master_logged_in']_vars

\* C15: master_logged_in changes from False to True only in the step of a
\* manual login task that follows its polling loop, and only when that loop
\* ended, after at most 120 polls, at a location that is neither a login nor
\* an mfa page; no other step of the worker or of a producer sets it to True.
C15_OnlyLoginSetsLoggedIn ==
    [][(~master_logged_in /\ master_logged_in') =>
          /\ WorkerStep
          /\ cur.func = "manual_login_browser_logic"
          /\ w_pc = "login_set"
          /\ login_obs.polls \in 1..120
          /\ login_obs.url.path \notin {"login", "mfa"}
          /\ login_obs.url.host = "unifi.ui.com"
      ]_vars

\* a manual login that started logged out has set master_logged_in, having
\* left the login page at the last poll
C15_Witness ==
    /\ cur.func = "manual_login_browser_logic"
    /\ began_out
    /\ master_logged_in
    /\ w_pc = "login_finally"
    /\ login_obs.polls = 120
    /\ ~IsAuthPage(login_obs.url)

\* C16: when the worker starts executing a manual login task, cookies.json
\* does not exist and master_logged_in is False.
C16_LoginStartsClean ==
    (cur.func = "manual_login_browser_logic" /\ w_pc = "login_open")
        => (~cookies /\ ~master_logged_in)

\* the trigger of one kind agrees with the stored schedule of that kind
TriggerMatches(trigger, enabled, unit, value) ==
    /\ trigger.installed <=> enabled
    /\ trigger.installed => (trigger.unit = unit /\ trigger.value = value)

\* C17: after an update_schedule request that ran to its end, the BackupJob
\* trigger and the ConnectivityCheckJob trigger are each installed exactly
\* when the stored enabled flag of the kind is true, with the stored value
\* and unit as interval.
C17_TriggersMatchSchedule ==
    upd.done = "ok" =>
        /\ TriggerMatches(sched_jobs.BackupJob, schedule.backup_enabled,
                          schedule.backup_unit, schedule.backup_value)
        /\ TriggerMatches(sched_jobs.ConnectivityCheckJob, schedule.check_enabled,
                          schedule.check_unit, schedule.check_value)

\* task uid has been put on the queue
Enqueued(uid) == enq_count >= uid

\* the worker has run task uid to its end_task()
Executed(uid) == \E i \in 1..Len(finished) : finished[i] = uid

\* C18: with the worker scheduled fairly, every task put on the queue is
\* eventually taken and run to its end by the worker, and no task is taken or
\* ended twice.
C18_EveryTaskRunsOnce ==
    /\ [](\A i, k \in 1..Len(started) : started[i] = started[k] => i = k)
    /\ [](\A i, k \in 1..Len(finished) : finished[i] = finished[k] => i = k)
    /\ [](\A i \in 1..Len(finished) : Enqueued(finished[i]))
    /\ \A uid \in 1..MaxTasks : Enqueued(uid) ~> Executed(uid)

\* two tasks were put and both have been run to their end
C18_Witness ==
    /\ enq_count = 2
    /\ Executed(1)
    /\ Executed(2)
    /\ task_queue = <<>>
    /\ w_pc = "w_get"

\* ids of the stored consoles
StoredIds == {con[consoles[i]].id : i \in 1..Len(consoles)}

\* C19: whatever master_logged_in is and whatever is running or queued, a
\* manual_relogin request and a firing ConnectivityCheckJob trigger put their
\* task, and a manual_backup request for the id of a stored console puts its
\* task.
C19_OnlyBatchRejected ==
    MayEnqueue =>
        /\ ENABLED ManualRelogin
        /\ sched_jobs.ConnectivityCheckJob.installed
              => ENABLED ScheduledConnectivityCheckJob
        /\ \A cid \in StoredIds : ManualBackupAccepts(cid)

\* C20: no two stored consoles have the same id, and a console created later
\* (console objects are numbered in creation order) has an id greater than
\* that of every console created before it, stored or removed.
C20_IdsUniqueMonotone ==
    /\ \A i, k \in 1..Len(consoles) :
          i # k => con[consoles[i]].id # con[consoles[k]].id
    /\ \A o1, o2 \in DOMAIN con : o1 < o2 => con[o1].id < con[o2].id

\* the interval values and units appdata["schedule"] is meant to hold
ScheduleUnits == {"minutes", "hours", "days"}

\* C21: in every state the stored schedule of each kind has an interval value
\* of at least 1 and a unit that is minutes, hours or days, whatever integers
\* and unit texts the update_schedule requests carry.
C21_ScheduleWellFormed ==
    /\ schedule.backup_value >= 1
    /\ schedule.check_value >= 1
    /\ schedule.backup_unit \in ScheduleUnits
    /\ schedule.check_unit \in ScheduleUnits

\* the step in which an attempt of a batch job finds the browser on a login
\* or mfa page
ForcedLoginStep ==
    /\ InJob
    /\ w_pc = "att_body"
    /\ w_pc' = "att_finally"
    /\ con'[c].status = "Fail: forced login => cookies invalid"

\* the job started logged in and master_logged_in is False now
LoggedOutInJob == InJob /\ ~began_out /\ ~master_logged_in

\* C22: the step in which an attempt of a batch job sees a forced redirect to
\* a login or mfa page sets master_logged_in to False and returns False to the
\* job, which goes on; when the job is over, every console that had not
\* succeeded before has been attempted in each of the passes 1, 2 and 3, has
\* failed each time, and has status "Failed after 3 tries".
C22_JobGoesOnLoggedOut ==
    /\ [][ForcedLoginStep =>
             /\ master_logged_in
             /\ ~master_logged_in'
             /\ ~ok'
             /\ tries'[c] = Append(tries[c], [pass |-> job.pass, ok |-> FALSE])
          ]_vars
    /\ []((JobOver /\ LoggedOutInJob) =>
             \A o \in DOMAIN con :
                 \/ /\ Len(tries[o]) = 3
                    /\ FailedAllPasses(o)
                    /\ con[o].status = "Failed after 3 tries"
                 \/ /\ tries[o] # <<>>
                    /\ tries[o][Len(tries[o])].ok
                    /\ \A i \in 1..(Len(tries[o]) - 1) : ~tries[o][i].ok)

\* a job is over in which the first console succeeded, the attempt on the
\* second one was redirected to the login page, and the second and third
\* consoles failed in all three passes
C22_Witness ==
    /\ JobOver
    /\ w_pc = "w_end"
    /\ LoggedOutInJob
    /\ tries[1] = << [pass |-> 1, ok |-> TRUE] >>
    /\ FailedAllPasses(2) /\ Len(tries[2]) = 3
    /\ FailedAllPasses(3) /\ Len(tries[3]) = 3
    /\ con[2].status = "Failed after 3 tries"
    /\ con[3].status = "Failed after 3 tries"
    /\ job.delays = 2

\* C23: whenever the worker is back at task_queue.get() after a task, the
\* cleanup call that followed that task has killed the leftover browser
\* processes, whether or not further tasks were waiting in the queue.
C23_CleanupAfterEveryTask ==
    (w_pc = "w_get" /\ Len(finished) > 0) => cleaned

\* C24: the log list of every event published by status_stream holds at most
\* 100 entries, the newest first (entries are numbered in append order),
\* however the read interleaves with add_app_log calls of other threads.
C24_SnapshotBound ==
    /\ Len(data_logs) <= 100
    /\ \A i, k \in 1..Len(data_logs) : i < k => data_logs[i] > data_logs[k]

\* the position of a stored console in appdata["consoles"]
Position(o) == CHOOSE i \in 1..Len(consoles) : consoles[i] = o

\* console o was attempted in pass p of the current batch job
AttemptedIn(o, p) == HasAttempt(o, p, TRUE) \/ HasAttempt(o, p, FALSE)

\* the step in which the job calls attempt_console_backup
AttemptStarts == InJob /\ w_pc = "job_next" /\ w_pc' = "att_open"

\* a batch job that passed the logged-in check is running or just over
JobRuns == InJob /\ job.pass >= 1 /\ w_pc # "job_begin"

StoredAtBegin(o) == \E i \in 1..Len(began_with) : began_with[i] = o

\* the loop of pass 1 has just ended
Pass1Over == JobRuns /\ job.pass = 1 /\ w_pc \in {"job_wait", "job_done"}

\* C26: when pass 1 of a batch job has ended, every console that was stored
\* when the job began and is still stored has been attempted exactly once in
\* pass 1, whatever add_console and remove_console requests for other consoles
\* were handled while the pass was iterating.
C26_Pass1AttemptsAll ==
    Pass1Over =>
        \A o \in DOMAIN con :
            (StoredAtBegin(o) /\ Stored(o)) =>
                Cardinality({i \in 1..Len(tries[o]) : tries[o][i].pass = 1}) = 1

\* C27: with the worker scheduled fairly, whenever the worker has left
\* task_queue.get() with a task it is eventually back there; the polling loop
\* of a manual login has made at most 120 polls, the download loop of an
\* attempt at most 60, and a batch job is never in a pass after the third and
\* never sleeps more than twice.
C27_TasksTerminate ==
    /\ [](login_obs.polls <= MaxPolls)
    /\ [](dl_polls <= MaxDownloadPolls)
    /\ [](job.pass <= 3 /\ job.delays <= 2)
    /\ [](w_pc # "w_get" => <>(w_pc = "w_get"))

\* a manual login that needed all 120 polls and then a batch job of three
\* passes and two sleeps have both ended and the worker is back at the queue
C27_Witness ==
    /\ w_pc = "w_get"
    /\ Executed(1)
    /\ Executed(2)
    /\ login_obs.polls = MaxPolls
    /\ job.pass = 3
    /\ job.delays = 2

\* the step in which attempt_console_backup reaches a return or its except clause
AttemptReturns == w_pc \in {"att_check", "att_body"} /\ w_pc' = "att_finally"

\* C28: a console's last_backup_time changes only in the step in which an
\* attempt on that console returns True, and every such step sets it (to the
\* time of the task making the attempt); failed attempts of every kind, the
\* relabelling to "Succeeded after retry", the marking "Failed after 3 tries"
\* and a batch job skipped while logged out leave it as it was.
C28_TimeOnlyOnSuccess ==
    [][/\ \A o \in DOMAIN con :
            con'[o].time # con[o].time => (AttemptReturns /\ c = o /\ ok')
       /\ (AttemptReturns /\ ok') =>
            /\ con'[c].time = cur.uid
            /\ con'[c].time # NoTime
       /\ (AttemptReturns /\ ~ok') => con'[c].time = con[c].time
      ]_vars

\* the second task, a batch job, is over: the console failed pass 1, succeeded
\* in pass 2, was relabelled, and carries the time of that job
C28_Witness ==
    /\ JobOver
    /\ cur.uid = 2
    /\ HasAttempt(1, 1, FALSE)
    /\ HasAttempt(1, 2, TRUE)
    /\ con[1].status = "Succeeded after retry"
    /\ con[1].time = 2

\* C29: a step of a batch job gives a console the status "Succeeded after
\* retry" only if that console object was attempted and failed in an earlier
\* pass of the same job, whatever remove_console and add_console requests are
\* handled between the passes.
C29_RetryOnlyAfterFailure ==
    [][\A o \in DOMAIN con :
          (con'[o].status = "Succeeded after retry"
             /\ con[o].status # "Succeeded after retry")
          => \E p \in 1..(job.pass - 1) : HasAttempt(o, p, FALSE)
      ]_vars

\* C30: once master_logged_in is False while a batch job that began logged in
\* is running, no attempt of that job returns True any more, so that every
\* console that had not succeeded by then fails in its remaining passes.
C30_NoSuccessAfterLogout ==
    [][(JobRuns /\ ~master_logged_in /\ AttemptReturns) => ~ok']_vars

\* C31: in every state in which master_logged_in is True, cookies.json exists,
\* however a manual login task (save_cookies, then the flag) interleaves with
\* manual_relogin requests (remove the cookies, then clear the flag).
C31_LoggedInHasCookies == master_logged_in => cookies

\* the step is an update_schedule request that ends with ValueError
UpdateFailsStep == upd'.count = upd.count + 1 /\ upd'.done = "error"

\* C32: an update_schedule request that fails because a submitted interval
\* value is not an integer leaves appdata["schedule"] and the installed
\* triggers as they were; in particular it stores no "minutes" value below 15.
C32_FailedUpdateChangesNothing ==
    [][UpdateFailsStep =>
          /\ schedule' = schedule
          /\ sched_jobs' = sched_jobs
          /\ schedule'.backup_unit = "minutes" => schedule'.backup_value >= MinMinutes
          /\ schedule'.check_unit = "minutes" => schedule'.check_value >= MinMinutes
      ]_vars

\* the worker has taken a task from the queue and has not ended it
HoldsTask == cur # NoTask

\* C33: in every state in which the worker holds a task it has taken from the
\* queue and not yet ended, current_task_status is running, its step carries
\* the label of that task (for a batch job: a label of that job) and its
\* start time is set.
C33_HeldTaskShowsRunning ==
    HoldsTask =>
        /\ current_task_status.running
        /\ current_task_status.step.cls = cur.name.cls
        /\ current_task_status.step.cls # ""
        /\ current_task_status.start_time = "set"

====
